---- MODULE Spec2Model ----
(***************************************************************************)
(* A model of the SEG-Y indexers (segy/indexing.py) and of the standards   *)
(* registry (segy/standards/registry.py).                                  *)
(*                                                                         *)
(* Bytes are natural numbers, a buffer is a sequence of bytes, a byte      *)
(* range is a pair <<start, end>> (half open).  An optional integer is     *)
(* <<>> for Python's None and <<v>> for the integer v.                     *)
(***************************************************************************)
EXTENDS Integers, Sequences, FiniteSets, TLC

VARIABLES
    spec,                \* AbstractIndexer.spec: the TraceDescriptor
    max_value,           \* AbstractIndexer.max_value: the trace count
    postprocess_kwargs,  \* AbstractIndexer.postprocess_kwargs
    host,                \* the byte order of the machine the reader runs on
    call,                \* the last operation: what was called, with which arguments
    requests,            \* the byte ranges handed to fs.cat_ranges by the last operation
    buffer,              \* the buffer merge_cat_file returned to the last operation
    fetches,             \* how many times the last operation called fs.cat_ranges
    arrived,             \* range fetches of a waiting call that completed, in that order
    outcome,             \* what the last operation returned or raised
    registry,            \* standards/registry.py: the module-level dict
    handles,             \* descriptors that callers hold (returned by get_spec)
    heap                 \* object store: descriptor objects by identity

vars == <<spec, max_value, postprocess_kwargs, host, call, requests, buffer, fetches, arrived,
          outcome, registry, handles, heap>>

indexerVars == <<spec, max_value, postprocess_kwargs, host>>
ioVars == <<call, requests, buffer, fetches, arrived, outcome>>
registryVars == <<registry, handles, heap>>

\* an optional integer is <<>> (None) or <<v>>
None == <<>>
Some(v) == <<v>>

(***************************************************************************)
(* Bounds of the model.                                                    *)
(***************************************************************************)
\* longest index list a caller passes
MaxLen == 3
\* largest absolute slice step tried
MaxStep == 2
\* how many descriptors callers get from the registry
MaxHandles == 2

(***************************************************************************)
(* Sequence helpers.                                                       *)
(***************************************************************************)
RECURSIVE Concat(_)
Concat(ss) == IF ss = <<>> THEN <<>> ELSE Head(ss) \o Concat(Tail(ss))

Range(s) == { s[k] : k \in DOMAIN s }

SeqsUpTo(S, n) == UNION { [1..k -> S] : k \in 0..n }

Min(a, b) == IF a < b THEN a ELSE b
Max(a, b) == IF a > b THEN a ELSE b


(***************************************************************************)
(* The file behind url, as fs.cat_ranges reads it.  Every offset the model *)
(* reads is below 256, so distinct offsets hold distinct bytes and a byte  *)
(* of the buffer tells where it was read from.                             *)
(***************************************************************************)
FileByte(p) == (3 * p + 1) % 256

\* fs.cat_ranges for one range: the bytes of [start, end)
ReadRange(r) == [k \in 1..Max(r[2] - r[1], 0) |-> FileByte(r[1] + k - 1)]

\* fs.cat_ranges: one byte string per range, in request order
cat_ranges(rs) == [k \in DOMAIN rs |-> ReadRange(rs[k])]

(***************************************************************************)
(* The trace descriptor: header_size and data_size follow from the field   *)
(* widths, as the numpy dtype's itemsize does.                             *)
(***************************************************************************)
RECURSIVE Sum(_)
Sum(s) == IF s = <<>> THEN 0 ELSE Head(s) + Sum(Tail(s))

\* spec.header_descriptor.dtype.itemsize
HeaderItemsize(d) == Sum(d.header_widths)
\* spec.data_descriptor.dtype.itemsize: samples * width(format)
DataItemsize(d) == d.samples * d.sample_width
\* spec.dtype.itemsize: header then data
TraceItemsize(d) == HeaderItemsize(d) + DataItemsize(d)

Kinds == {"trace", "header", "data"}

(***************************************************************************)
(* indices_to_byte_ranges of the three indexers: the pairs                 *)
(* <<starts[k], ends[k]>>.                                                 *)
(***************************************************************************)
\* fault variant of TraceRanges: the end is taken header_itemsize after the start
TraceRangesHeaderEnd(d, indices) ==
    [k \in DOMAIN indices |->
        LET start == d.offset + indices[k] * TraceItemsize(d)
        IN  <<start, start + HeaderItemsize(d)>>]

TraceRanges(d, indices) ==
    [k \in DOMAIN indices |->
        LET start == d.offset + indices[k] * TraceItemsize(d)
        IN  <<start, start + TraceItemsize(d)>>]

HeaderRanges(d, indices) ==
    [k \in DOMAIN indices |->
        LET start == d.offset + indices[k] * TraceItemsize(d)
        IN  <<start, start + HeaderItemsize(d)>>]

\* fault variant of DataRanges: the header is not skipped
DataRangesNoHeader(d, indices) ==
    [k \in DOMAIN indices |->
        LET start == d.offset + indices[k] * TraceItemsize(d)
        IN  <<start, start + DataItemsize(d)>>]

DataRanges(d, indices) ==
    [k \in DOMAIN indices |->
        LET start_offset == d.offset + HeaderItemsize(d)
            start == start_offset + indices[k] * TraceItemsize(d)
        IN  <<start, start + DataItemsize(d)>>]

indices_to_byte_ranges(kind, d, indices) ==
    CASE kind = "trace"  -> TraceRanges(d, indices)
      [] kind = "header" -> HeaderRanges(d, indices)
      [] kind = "data"   -> DataRanges(d, indices)

\* the size of one region of the indexer's kind
RegionSize(kind, d) ==
    CASE kind = "trace"  -> TraceItemsize(d)
      [] kind = "header" -> HeaderItemsize(d)
      [] kind = "data"   -> DataItemsize(d)

(***************************************************************************)
(* merge_offset_ranges(paths, starts, ends, max_gap=0, max_block, sort) of *)
(* fsspec.utils as merge_cat_file calls it: all paths are the one url, so  *)
(* the path tests of the library never hold and only the ranges matter.    *)
(* Zero or one range is returned as is; otherwise the ranges are sorted    *)
(* and a range is merged into the block before it unless it starts more    *)
(* than max_gap after the block's end or would end more than max_block     *)
(* after the block's start.                                                *)
(***************************************************************************)
\* the order of sorted(zip(paths, starts, ends)) on equal paths
RangeLeq(a, b) == a[1] < b[1] \/ (a[1] = b[1] /\ a[2] <= b[2])

RECURSIVE InsertRange(_, _)
InsertRange(r, s) ==
    IF s = <<>> THEN <<r>>
    ELSE IF RangeLeq(r, Head(s)) THEN <<r>> \o s
    ELSE <<Head(s)>> \o InsertRange(r, Tail(s))

RECURSIVE SortRanges(_)
SortRanges(s) == IF s = <<>> THEN <<>> ELSE InsertRange(Head(s), SortRanges(Tail(s)))

\* the ranges as merge_offset_ranges visits them: sorted when sort=True
OrderRanges(s, sort) == IF sort THEN SortRanges(s) ELSE s

\* the gap the library allows between two ranges it merges (max_gap=0)
MaxGap == 0

\* fault variant of CannotMerge: ranges are merged across any gap while the block fits
CannotMergeWithinBlock(new_start, new_end, r, max_block) == (r[2] - new_start) > max_block

\* fault variant of CannotMerge: the block size is not looked at
CannotMergeGapOnly(new_start, new_end, r, max_block) == (r[1] - new_end) > 0

\* fault variant of CannotMerge: overlapping and touching ranges are merged, and so
\* are ranges a gap smaller than the block apart when the merged block fits
CannotMergeGapWithinBlock(new_start, new_end, r, max_block) ==
    ~ \/ (r[1] - new_end) <= 0
      \/ (r[2] - new_start) <= max_block /\ (r[1] - new_end) < max_block

\* whether range r cannot be merged into the block [new_start, new_end)
CannotMerge(new_start, new_end, r, max_block) ==
    \/ (r[1] - new_end) > MaxGap
    \/ (r[2] - new_start) > max_block

\* the loop over ranges 2..n: acc holds new_starts/new_ends so far
RECURSIVE MergeLoop(_, _, _)
MergeLoop(acc, rest, max_block) ==
    IF rest = <<>> THEN acc
    ELSE LET last == acc[Len(acc)]
             r == Head(rest)
         IN  IF CannotMerge(last[1], last[2], r, max_block)
             THEN MergeLoop(Append(acc, r), Tail(rest), max_block)
             ELSE MergeLoop([acc EXCEPT ![Len(acc)] = <<last[1], r[2]>>],
                            Tail(rest), max_block)

merge_offset_ranges(rs, max_block) ==
    IF Len(rs) <= 1 THEN rs
    ELSE LET sorted == OrderRanges(rs, TRUE)
         IN  MergeLoop(<<Head(sorted)>>, Tail(sorted), max_block)

\* merge_cat_file's default block_size (8 MiB)
DefaultBlockSize == 8388608

\* merge_cat_file: the ranges requested and the buffer returned
MergedRequests(rs, block_size) == merge_offset_ranges(rs, block_size)
merge_cat_file(rs, block_size) == Concat(cat_ranges(MergedRequests(rs, block_size)))

(***************************************************************************)
(* Selectors: what a caller passes to __getitem__.                         *)
(***************************************************************************)
IntItem(i) == [type |-> "int", i |-> i, l |-> <<>>, start |-> None, stop |-> None, step |-> None]
ListItem(l) == [type |-> "list", i |-> 0, l |-> l, start |-> None, stop |-> None, step |-> None]
SliceItem(a, b, c) == [type |-> "slice", i |-> 0, l |-> <<>>, start |-> a, stop |-> b, step |-> c]
\* a selector that is no int, list or slice (a string, a tuple)
OtherItem == [type |-> "other", i |-> 0, l |-> <<>>, start |-> None, stop |-> None, step |-> None]

\* Python's `x or default` on an optional integer: None and 0 are falsy
OrDefault(x, default) == IF x = None THEN default ELSE IF x[1] = 0 THEN default ELSE x[1]

(***************************************************************************)
(* slice.indices(length) and range(start, stop, step) of Python.           *)
(***************************************************************************)
SliceStep(item) == IF item.step = None THEN 1 ELSE item.step[1]

SliceStart(item, length) ==
    LET step == SliceStep(item)
        lower == IF step < 0 THEN -1 ELSE 0
        upper == IF step < 0 THEN length - 1 ELSE length
    IN  IF item.start = None THEN (IF step < 0 THEN upper ELSE lower)
        ELSE IF item.start[1] < 0 THEN Max(item.start[1] + length, lower)
        ELSE Min(item.start[1], upper)

SliceStop(item, length) ==
    LET step == SliceStep(item)
        lower == IF step < 0 THEN -1 ELSE 0
        upper == IF step < 0 THEN length - 1 ELSE length
    IN  IF item.stop = None THEN (IF step < 0 THEN lower ELSE upper)
        ELSE IF item.stop[1] < 0 THEN Max(item.stop[1] + length, lower)
        ELSE Min(item.stop[1], upper)

\* len(range(start, stop, step)), step # 0
RangeLen(start, stop, step) ==
    IF step > 0
    THEN (IF start < stop THEN ((stop - start - 1) \div step) + 1 ELSE 0)
    ELSE (IF start > stop THEN ((start - stop - 1) \div (-step)) + 1 ELSE 0)

\* list(range(start, stop, step))
PyRange(start, stop, step) ==
    [k \in 1..RangeLen(start, stop, step) |-> start + (k - 1) * step]

\* list(range(*item.indices(length)))
SliceIndices(item, length) ==
    PyRange(SliceStart(item, length), SliceStop(item, length), SliceStep(item))

(***************************************************************************)
(* bounds_check: the outliers, negative ones first, and the range the      *)
(* message prints.                                                         *)
(***************************************************************************)
Outliers(indices, max_) ==
    SelectSeq(indices, LAMBDA index : index < 0)
        \o SelectSeq(indices, LAMBDA index : index >= max_)

\* the upper end of the interval "[0, ...)" in the IndexError message
ReportedUpper(max_) == max_ - 1

\* fault variant of BoundsCheckRaises: negative indices are let through
BoundsCheckRaisesAboveOnly(indices, max_) ==
    SelectSeq(indices, LAMBDA index : index >= max_) # <<>>

\* whether bounds_check raises
BoundsCheckRaises(indices, max_) == Outliers(indices, max_) # <<>>

(***************************************************************************)
(* Decoding.  A decoded record holds the bytes now in memory for its       *)
(* header and its data, the byte order of its dtype and the type of its    *)
(* data samples.                                                           *)
(***************************************************************************)
Reverse(s) == [k \in 1..Len(s) |-> s[Len(s) - k + 1]]

Resolve(order, h) == IF order = "native" THEN h ELSE order

\* the bytes of a scalar, most significant first, given its bytes in memory in the
\* given byte order; and back (the same reversal)
Significant(b, order, h) == IF Resolve(order, h) = "big" THEN b ELSE Reverse(b)

\* ndarray.byteswap on one record: the bytes of every scalar are reversed
RECURSIVE SwapFields(_, _)
SwapFields(b, widths) ==
    IF widths = <<>> THEN b
    ELSE Reverse(SubSeq(b, 1, Head(widths)))
            \o SwapFields(SubSeq(b, Head(widths) + 1, Len(b)), Tail(widths))

\* ndarray.newbyteorder(): the dtype's byte order is flipped
Flip(order, h) == IF Resolve(order, h) = "big" THEN "little" ELSE "big"

\* the widths of the data samples of one trace
SampleWidths(d) == [k \in 1..d.samples |-> d.sample_width]

\* the position of the highest set bit of a positive number
RECURSIVE HiBit(_)
HiBit(f) == IF f <= 1 THEN 0 ELSE 1 + HiBit(f \div 2)

\* ibm2ieee on one 32-bit word, given and returned as its four bytes, most
\* significant first: sign and 7-bit exponent in the first, 24-bit fraction after
ibm2ieee(W) ==
    LET sign == W[1] \div 128
        exponent == W[1] % 128
        fraction == (W[2] * 256 + W[3]) * 256 + W[4]
        hi == HiBit(fraction)
        e == 4 * exponent + hi - 153
        mantissa == (fraction * 2^(23 - hi)) % 8388608
        bits(ee, m) == <<sign * 128 + ee \div 2, (ee % 2) * 128 + m \div 65536,
                         (m \div 256) % 256, m % 256>>
    IN  IF fraction = 0 \/ e <= 0 THEN bits(0, 0)
        ELSE IF e >= 255 THEN bits(255, 0)
        ELSE bits(e, mantissa)

\* the data block of a record with every sample converted, kept in byte order `order`
RECURSIVE ConvertSamples(_, _, _)
ConvertSamples(b, order, h) ==
    IF Len(b) < 4 THEN b
    ELSE Significant(ibm2ieee(Significant(SubSeq(b, 1, 4), order, h)), order, h)
            \o ConvertSamples(SubSeq(b, 5, Len(b)), order, h)

\* the samples of a data block re-encoded from byte order `order` into the host's
RECURSIVE WordBytesNative(_, _, _)
WordBytesNative(b, order, h) ==
    IF Len(b) < 4 THEN b
    ELSE Significant(Significant(SubSeq(b, 1, 4), order, h), h, h)
            \o WordBytesNative(SubSeq(b, 5, Len(b)), order, h)

\* np.frombuffer(buffer, dtype): raises ValueError unless whole records fit
FrombufferRaises(buf, itemsize) == itemsize = 0 \/ Len(buf) % itemsize # 0

\* np.frombuffer(buffer, dtype): the records, as byte strings
Frombuffer(buf, itemsize) ==
    [k \in 1..(Len(buf) \div itemsize) |-> SubSeq(buf, (k - 1) * itemsize + 1, k * itemsize)]

\* trace_ibm2ieee_inplace with the words taken from the start of the record
trace_ibm2ieee_from_record_start(rec, h) ==
    LET all == ConvertSamples(rec.header \o rec.data, rec.byteorder, h)
    IN  [rec EXCEPT !.header = SubSeq(all, 1, Len(rec.header)),
                    !.data = SubSeq(all, Len(rec.header) + 1, Len(all)),
                    !.data_format = "float32",
                    !.data_byteorder = h]

\* trace_ibm2ieee_inplace on one record: the converted words are written into the
\* data field in the byte order it has, and the record is then viewed with the
\* same header dtype and a data field of the host's float32
trace_ibm2ieee_inplace(rec, h) ==
    [rec EXCEPT !.data = ConvertSamples(rec.data, rec.byteorder, h),
                !.data_format = "float32",
                !.data_byteorder = h]

\* TraceIndexer.decode on one record
TraceDecodeOne(d, raw, h) ==
    LET swapped == SwapFields(raw, d.header_widths \o SampleWidths(d))
        rec == [header |-> SubSeq(swapped, 1, HeaderItemsize(d)),
                data |-> SubSeq(swapped, HeaderItemsize(d) + 1, Len(swapped)),
                byteorder |-> Flip(d.endianness, h),
                data_byteorder |-> Flip(d.endianness, h),
                data_format |-> d.format]
    IN  IF d.format = "ibm32" THEN trace_ibm2ieee_inplace(rec, h) ELSE rec

\* HeaderIndexer.decode on one record
HeaderDecodeOne(d, raw, h) ==
    [header |-> SwapFields(raw, d.header_widths),
     data |-> <<>>,
     byteorder |-> Flip(d.endianness, h),
     data_byteorder |-> Flip(d.endianness, h),
     data_format |-> "none"]

\* DataIndexer.decode on one record: ibm2ieee returns a new native float32 array
DataDecodeOne(d, raw, h) ==
    LET swapped == SwapFields(raw, SampleWidths(d))
        order == Flip(d.endianness, h)
    IN  IF d.format = "ibm32"
        THEN [header |-> <<>>,
              data |-> ConvertSamples(WordBytesNative(swapped, order, h), h, h),
              byteorder |-> h,
              data_byteorder |-> h,
              data_format |-> "float32"]
        ELSE [header |-> <<>>, data |-> swapped, byteorder |-> order,
              data_byteorder |-> order, data_format |-> d.format]

DecodeOne(kind, d, raw, h) ==
    CASE kind = "trace"  -> TraceDecodeOne(d, raw, h)
      [] kind = "header" -> HeaderDecodeOne(d, raw, h)
      [] kind = "data"   -> DataDecodeOne(d, raw, h)

\* decode of the indexer of the given kind: one record per itemsize bytes
decode(kind, d, buf, h) ==
    LET raws == Frombuffer(buf, RegionSize(kind, d))
    IN  [k \in DOMAIN raws |-> DecodeOne(kind, d, raws[k], h)]

\* the shape of the decoded array: data records are arrays of samples
DecodedShape(kind, d, n) == IF kind = "data" THEN <<n, d.samples>> ELSE <<n>>

\* ndarray.squeeze(): every axis of length one is dropped
squeeze(shape) == SelectSeq(shape, LAMBDA n : n # 1)

(***************************************************************************)
(* What an operation leaves behind: the ranges it requested, the buffer it *)
(* got, and what it returned or raised.                                    *)
(***************************************************************************)
NoOutcome ==
    [status |-> "idle", error |-> "none", outliers |-> <<>>, upper |-> 0,
     shape |-> <<>>, records |-> <<>>, form |-> "none"]

Raised(status, error) == [NoOutcome EXCEPT !.status = status, !.error = error]

\* the IndexError of bounds_check: the outliers and the printed range [0, upper)
OutOfBounds(indices, max_) ==
    [Raised("IndexError", "bounds") EXCEPT !.outliers = Outliers(indices, max_),
                                           !.upper = ReportedUpper(max_)]

Returned(shape, records, form) ==
    [NoOutcome EXCEPT !.status = "ok", !.shape = shape, !.records = records, !.form = form]

Effect(rs, buf, n, out) == [requests |-> rs, buffer |-> buf, fetches |-> n, outcome |-> out]

\* an operation that raised before fetching anything
Failed(out) == Effect(<<>>, <<>>, 0, out)

(***************************************************************************)
(* postprocess_kwargs: None, or a dict that may hold "pandas_headers".     *)
(***************************************************************************)
KwargsNone == [is_none |-> TRUE, has_key |-> FALSE, value |-> FALSE]
KwargsEmpty == [is_none |-> FALSE, has_key |-> FALSE, value |-> FALSE]
KwargsPandas(b) == [is_none |-> FALSE, has_key |-> TRUE, value |-> b]

\* postprocess_kwargs.get("pandas_headers", False)
UsingPandas(kwargs) == IF kwargs.has_key THEN kwargs.value ELSE FALSE

\* post_process of the three indexers: the form of what is returned, or the error
\* of calling .get on None
post_process(kind, kwargs, out) ==
    IF kind = "data" THEN [out EXCEPT !.form = "array"]
    ELSE IF kwargs.is_none THEN Raised("AttributeError", "kwargs")
    ELSE IF UsingPandas(kwargs)
         THEN [out EXCEPT !.form = IF kind = "trace" THEN "header_table_and_data"
                                                      ELSE "table"]
         ELSE [out EXCEPT !.form = "array"]

(***************************************************************************)
(* AbstractIndexer.fetch and AbstractIndexer.__getitem__.                  *)
(***************************************************************************)
\* decode(buffer).squeeze() followed by post_process: what the call returns or raises
DecodeAndProcess(kind, d, kwargs, h, buf) ==
    IF FrombufferRaises(buf, RegionSize(kind, d))
    THEN Raised("ValueError", "frombuffer")
    ELSE LET records == decode(kind, d, buf, h)
             shape == squeeze(DecodedShape(kind, d, Len(records)))
         IN  post_process(kind, kwargs, Returned(shape, records, "array"))

\* fetch(indices) followed by post_process
FetchAndProcess(kind, d, kwargs, h, indices) ==
    LET ranges == indices_to_byte_ranges(kind, d, indices)
        merged == MergedRequests(ranges, DefaultBlockSize)
        buf == merge_cat_file(ranges, DefaultBlockSize)
    IN  Effect(merged, buf, 1, DecodeAndProcess(kind, d, kwargs, h, buf))

\* fault variant of SliceCheck: the bounds are checked before the step
SliceCheckBoundsFirst(item, max_) ==
    LET start == OrDefault(item.start, 0)
        stop == OrDefault(item.stop, max_)
    IN  IF BoundsCheckRaises(<<start, stop - 1>>, max_)
        THEN OutOfBounds(<<start, stop - 1>>, max_)
        ELSE IF item.step = Some(0) THEN Raised("ValueError", "step0")
        ELSE NoOutcome

\* the slice branch up to the bounds check: what it raises, if anything
SliceCheck(item, max_) ==
    IF item.step = Some(0) THEN Raised("ValueError", "step0")
    ELSE LET start == OrDefault(item.start, 0)
             stop == OrDefault(item.stop, max_)
         IN  IF BoundsCheckRaises(<<start, stop - 1>>, max_)
             THEN OutOfBounds(<<start, stop - 1>>, max_)
             ELSE NoOutcome

getitem(kind, d, max_, kwargs, h, item) ==
    CASE item.type = "int" ->
            IF BoundsCheckRaises(<<item.i>>, max_)
            THEN Failed(OutOfBounds(<<item.i>>, max_))
            ELSE FetchAndProcess(kind, d, kwargs, h, <<item.i>>)
      [] item.type = "list" ->
            IF BoundsCheckRaises(item.l, max_)
            THEN Failed(OutOfBounds(item.l, max_))
            ELSE FetchAndProcess(kind, d, kwargs, h, item.l)
      [] item.type = "slice" ->
            IF SliceCheck(item, max_).status # "idle"
            THEN Failed(SliceCheck(item, max_))
            ELSE FetchAndProcess(kind, d, kwargs, h, SliceIndices(item, max_))
      [] OTHER -> Failed(Raised("TypeError", "type"))

(***************************************************************************)
(* The files the indexers are opened on: a trace descriptor and the trace  *)
(* count the file facade derived.                                          *)
(***************************************************************************)
Descriptor(offset, header_widths, samples, sample_width, format, endianness) ==
    [offset |-> offset, header_widths |-> header_widths, samples |-> samples,
     sample_width |-> sample_width, format |-> format, endianness |-> endianness]

Files ==
    { [spec |-> Descriptor(100, <<2, 2>>, 3, 2, "int16", "big"), trace_count |-> 6],
      [spec |-> Descriptor(3, <<1, 2>>, 2, 4, "ibm32", "big"), trace_count |-> 3],
      [spec |-> Descriptor(0, <<2>>, 1, 2, "int16", "little"), trace_count |-> 2],
      [spec |-> Descriptor(1, <<2>>, 2, 1, "int8", "native"), trace_count |-> 2] }

Kwargs == {KwargsNone, KwargsEmpty, KwargsPandas(FALSE), KwargsPandas(TRUE)}

Hosts == {"little", "big"}

\* block sizes merge_cat_file is called with, besides the default fetch uses:
\* below one region, between one and two traces, between two and three traces
BlockSizes == {5, 16, 25}

(***************************************************************************)
(* The selectors callers try.                                              *)
(***************************************************************************)
\* indices: the valid ones and the first invalid one on either side
IntChoices(n) == (0 - 1)..n
Optional(S) == {None} \cup {Some(v) : v \in S}

Items(n) ==
    {IntItem(i) : i \in IntChoices(n)}
        \cup {ListItem(l) : l \in SeqsUpTo(IntChoices(n), MaxLen)}
        \cup {SliceItem(a, b, c) : a \in Optional((0 - 1)..(n + 1)),
                                   b \in Optional((0 - 1)..(n + 1)),
                                   c \in Optional((0 - MaxStep)..MaxStep)}
        \cup {OtherItem}

NoCall == [op |-> "none", kind |-> "none", item |-> OtherItem, block_size |-> 0]

(***************************************************************************)
(* The SEG-Y Rev0 standard (standards/rev0.py).  Descriptors are objects:  *)
(* heap[id] is the object with identity id, and a descriptor refers to its *)
(* children by identity (0 where the attribute is None).                   *)
(***************************************************************************)
\* StructuredFieldDescriptor(name, offset, format, endianness)
Field(name, offset, format, endianness) ==
    [name |-> name, offset |-> offset, format |-> format, endianness |-> endianness]

BINARY_FILE_HEADER_FIELDS_REV0 ==
    << Field("job_id", 0, "int32", "big"),
       Field("line_no", 4, "int32", "big"),
       Field("reel_no", 8, "int32", "big"),
       Field("data_traces_ensemble", 12, "int16", "big"),
       Field("aux_traces_ensemble", 14, "int16", "big"),
       Field("sample_interval", 16, "int16", "big"),
       Field("sample_interval_orig", 18, "int16", "big"),
       Field("samples_per_trace", 20, "int16", "big"),
       Field("samples_per_trace_orig", 22, "int16", "big"),
       Field("data_sample_format", 24, "int16", "big"),
       Field("ensemble_fold", 26, "int16", "big"),
       Field("trace_sorting", 28, "int16", "big"),
       Field("vertical_sum", 30, "int16", "big"),
       Field("sweep_freq_start", 32, "int16", "big"),
       Field("sweep_freq_end", 34, "int16", "big"),
       Field("sweep_length", 36, "int16", "big"),
       Field("sweep_type", 38, "int16", "big"),
       Field("sweep_trace_no", 40, "int16", "big"),
       Field("sweep_taper_start", 42, "int16", "big"),
       Field("sweep_taper_end", 44, "int16", "big"),
       Field("taper_type", 46, "int16", "big"),
       Field("correlated_traces", 48, "int16", "big"),
       Field("binary_gain", 50, "int16", "big"),
       Field("amp_recovery_method", 52, "int16", "big"),
       Field("measurement_system", 54, "int16", "big"),
       Field("impulse_signal_polarity", 56, "int16", "big"),
       Field("vibratory_polarity", 58, "int16", "big") >>

TRACE_HEADER_FIELDS_REV0 ==
    << Field("trace_seq_line", 0, "int32", "big"),
       Field("trace_seq_file", 4, "int32", "big"),
       Field("field_rec_no", 8, "int32", "big"),
       Field("trace_no_field_rec", 12, "int32", "big"),
       Field("energy_src_pt", 16, "int32", "big"),
       Field("cdp_ens_no", 20, "int32", "big"),
       Field("trace_no_ens", 24, "int32", "big"),
       Field("trace_id", 28, "int16", "big"),
       Field("vert_sum", 30, "int16", "big"),
       Field("horiz_stack", 32, "int16", "big"),
       Field("data_use", 34, "int16", "big"),
       Field("dist_src_to_rec", 36, "int32", "big"),
       Field("rec_elev", 40, "int32", "big"),
       Field("src_elev", 44, "int32", "big"),
       Field("src_depth", 48, "int32", "big"),
       Field("datum_elev_rec", 52, "int32", "big"),
       Field("datum_elev_src", 56, "int32", "big"),
       Field("water_depth_src", 60, "int32", "big"),
       Field("water_depth_rec", 64, "int32", "big"),
       Field("scalar_apply_elev", 68, "int16", "big"),
       Field("scalar_apply_coords", 70, "int16", "big"),
       Field("src_x", 72, "int32", "big"),
       Field("src_y", 76, "int32", "big"),
       Field("rec_x", 80, "int32", "big"),
       Field("rec_y", 84, "int32", "big"),
       Field("coord_units", 88, "int16", "big"),
       Field("weathering_vel", 90, "int16", "big"),
       Field("subweathering_vel", 92, "int16", "big"),
       Field("uphole_time_src", 94, "int16", "big"),
       Field("uphole_time_rec", 96, "int16", "big"),
       Field("src_static_corr", 98, "int16", "big"),
       Field("rec_static_corr", 100, "int16", "big"),
       Field("total_static", 102, "int16", "big"),
       Field("lag_time_a", 104, "int16", "big"),
       Field("lag_time_b", 106, "int16", "big"),
       Field("delay_rec_time", 108, "int16", "big"),
       Field("mute_start", 110, "int16", "big"),
       Field("mute_end", 112, "int16", "big"),
       Field("samples_per_trace", 114, "int16", "big"),
       Field("sample_interval", 116, "int16", "big"),
       Field("gain_type", 118, "int16", "big"),
       Field("instrument_gain", 120, "int16", "big"),
       Field("instrument_early_gain", 122, "int16", "big"),
       Field("correlated", 124, "int16", "big"),
       Field("sweep_freq_start", 126, "int16", "big"),
       Field("sweep_freq_end", 128, "int16", "big"),
       Field("sweep_length", 130, "int16", "big"),
       Field("sweep_type", 132, "int16", "big"),
       Field("sweep_trace_taper_start", 134, "int16", "big"),
       Field("sweep_trace_taper_end", 136, "int16", "big"),
       Field("taper_type", 138, "int16", "big"),
       Field("alias_filter_freq", 140, "int16", "big"),
       Field("alias_filter_slope", 142, "int16", "big"),
       Field("notch_filter_freq", 144, "int16", "big"),
       Field("notch_filter_slope", 146, "int16", "big"),
       Field("low_cut_freq", 148, "int16", "big"),
       Field("high_cut_freq", 150, "int16", "big"),
       Field("low_cut_slope", 152, "int16", "big"),
       Field("high_cut_slope", 154, "int16", "big"),
       Field("year", 156, "int16", "big"),
       Field("day", 158, "int16", "big"),
       Field("hour", 160, "int16", "big"),
       Field("minute", 162, "int16", "big"),
       Field("second", 164, "int16", "big"),
       Field("time_basis_code", 166, "int16", "big"),
       Field("trace_weighting_factor", 168, "int16", "big"),
       Field("geophone_group_no_roll1", 170, "int16", "big"),
       Field("geophone_group_no_first_trace", 172, "int16", "big"),
       Field("geophone_group_no_last_trace", 174, "int16", "big"),
       Field("gap_size", 176, "int16", "big"),
       Field("over_travel", 178, "int16", "big") >>

rev0_textual_file_header ==
    [cls |-> "TextHeaderDescriptor", rows |-> 40, cols |-> 80, offset |-> 0,
     encoding |-> "ebcdic", format |-> "uint8"]

rev0_binary_file_header ==
    [cls |-> "StructuredDataTypeDescriptor", fields |-> BINARY_FILE_HEADER_FIELDS_REV0,
     item_size |-> Some(400), offset |-> Some(3200)]

\* fault variant of rev0_trace_header: an item_size that cuts the last fields off
rev0_trace_header_cut ==
    [cls |-> "StructuredDataTypeDescriptor", fields |-> TRACE_HEADER_FIELDS_REV0,
     item_size |-> Some(176), offset |-> None]

rev0_trace_header ==
    [cls |-> "StructuredDataTypeDescriptor", fields |-> TRACE_HEADER_FIELDS_REV0,
     item_size |-> Some(240), offset |-> None]

rev0_trace_data ==
    [cls |-> "TraceDataDescriptor", format |-> "ibm32", endianness |-> "big",
     samples |-> None]

\* rev0_trace, given the identities of its header and data descriptors
rev0_trace(header, data) ==
    [cls |-> "TraceDescriptor", header_descriptor |-> header, data_descriptor |-> data,
     offset |-> None]

\* rev0_segy, given the identities of its children
rev0_segy(text, binary, trace) ==
    [cls |-> "SegyDescriptor", segy_standard |-> "REV0", text_file_header |-> text,
     binary_file_header |-> binary, extended_text_header |-> 0, trace |-> trace]

\* the objects the module rev0.py creates when it is imported, rev0_segy last
Rev0Objects ==
    << rev0_textual_file_header, rev0_binary_file_header, rev0_trace_header,
       rev0_trace_data, rev0_trace(3, 4), rev0_segy(1, 2, 5) >>

\* the identity of rev0_segy among them
Rev0SegyId == Len(Rev0Objects)

\* SegyStandard
SegyStandard == {"REV0", "REV1", "REV2", "REV21", "CUSTOM"}

(***************************************************************************)
(* The value of a descriptor: the object with its children in place of     *)
(* their identities.  Two descriptors are == in Python when these agree.   *)
(***************************************************************************)
TraceValue(h, id) ==
    [cls |-> h[id].cls, offset |-> h[id].offset,
     header_descriptor |-> h[h[id].header_descriptor],
     data_descriptor |-> h[h[id].data_descriptor]]

SegyValue(h, id) ==
    [cls |-> h[id].cls, segy_standard |-> h[id].segy_standard,
     text_file_header |-> h[h[id].text_file_header],
     binary_file_header |-> h[h[id].binary_file_header],
     extended_text_header |->
        IF h[id].extended_text_header = 0 THEN <<>>
        ELSE <<h[h[id].extended_text_header]>>,
     trace |-> TraceValue(h, h[id].trace)]

\* the identities of a SegyDescriptor and of the descriptors below it
SegyObjects(h, id) ==
    {id, h[id].text_file_header, h[id].binary_file_header, h[id].trace,
     h[h[id].trace].header_descriptor, h[h[id].trace].data_descriptor}
        \cup (IF h[id].extended_text_header = 0 THEN {} ELSE {h[id].extended_text_header})

(***************************************************************************)
(* model_copy of pydantic on a SegyDescriptor: the heap with the copy      *)
(* added, and the copy's identity.                                         *)
(***************************************************************************)
\* model_copy(deep=True): every descriptor below is copied too
DeepCopy(h, id) ==
    LET n == Len(h)
        tr == h[id].trace
        ext == h[id].extended_text_header
        k == IF ext = 0 THEN 0 ELSE 1
        copies ==
            << h[h[id].text_file_header], h[h[id].binary_file_header],
               h[h[tr].header_descriptor], h[h[tr].data_descriptor],
               [h[tr] EXCEPT !.header_descriptor = n + 3, !.data_descriptor = n + 4] >>
            \o (IF ext = 0 THEN <<>> ELSE <<h[ext]>>)
            \o << [h[id] EXCEPT !.text_file_header = n + 1,
                                !.binary_file_header = n + 2,
                                !.trace = n + 5,
                                !.extended_text_header = IF ext = 0 THEN 0 ELSE n + 6] >>
    IN  [heap |-> h \o copies, id |-> n + 6 + k]

\* model_copy(deep=False): a new SegyDescriptor that shares the descriptors below
ShallowCopy(h, id) == [heap |-> Append(h, h[id]), id |-> Len(h) + 1]

\* fault variant of CopyOnGet: the copy is shallow
CopyOnGetShallow(h, id) == ShallowCopy(h, id)

\* get_spec's return: spec.model_copy(deep=True)
CopyOnGet(h, id) == DeepCopy(h, id)

(***************************************************************************)
(* The registry is the empty module-level dict until standards are         *)
(* registered; a program that only reads traces does not load the          *)
(* standards and has no descriptor objects.                                *)
(***************************************************************************)
RegistryInit ==
    /\ registry = <<>>
    /\ handles = <<>>
    /\ heap = <<>>

(***************************************************************************)
(* Indexers: construction and the operations.                              *)
(***************************************************************************)
Idle ==
    /\ call = NoCall
    /\ requests = <<>>
    /\ buffer = <<>>
    /\ fetches = 0
    /\ arrived = <<>>
    /\ outcome = NoOutcome

\* AbstractIndexer.__init__ on one of the files
Init ==
    /\ \E f \in Files : spec = f.spec /\ max_value = f.trace_count
    /\ postprocess_kwargs \in Kwargs
    /\ host \in Hosts
    /\ Idle
    /\ RegistryInit

\* indexer[item] on the indexer of the given kind
GetItem(kind, item) ==
    /\ call = NoCall
    /\ LET e == getitem(kind, spec, max_value, postprocess_kwargs, host, item)
       IN  /\ requests' = e.requests
           /\ buffer' = e.buffer
           /\ fetches' = e.fetches
           /\ outcome' = e.outcome
    /\ arrived' = <<>>
    /\ call' = [op |-> "getitem", kind |-> kind, item |-> item,
                block_size |-> DefaultBlockSize]
    /\ UNCHANGED <<indexerVars, registryVars>>

\* merge_cat_file called with the byte ranges of in-range indices and a block size
MergeCatFile(kind, indices, block_size) ==
    /\ call = NoCall
    /\ LET ranges == indices_to_byte_ranges(kind, spec, indices)
       IN  /\ requests' = MergedRequests(ranges, block_size)
           /\ buffer' = merge_cat_file(ranges, block_size)
    /\ fetches' = 1
    /\ arrived' = <<>>
    /\ outcome' = Returned(<<>>, <<>>, "bytearray")
    /\ call' = [op |-> "merge_cat_file", kind |-> kind, item |-> ListItem(indices),
                block_size |-> block_size]
    /\ UNCHANGED <<indexerVars, registryVars>>

\* the caller takes the result; the next operation starts afresh
Return ==
    /\ call # NoCall
    /\ outcome.status # "pending"
    /\ call' = NoCall
    /\ requests' = <<>>
    /\ buffer' = <<>>
    /\ fetches' = 0
    /\ arrived' = <<>>
    /\ outcome' = NoOutcome
    /\ UNCHANGED <<indexerVars, registryVars>>

\* a caller with no operation under way starts one; Return ends it
Next ==
    \/ /\ call = NoCall
       /\ \E kind \in Kinds, item \in Items(max_value) : GetItem(kind, item)
    \/ /\ call = NoCall
       /\ \E kind \in Kinds, indices \in SeqsUpTo(0..(max_value - 1), MaxLen),
             block_size \in BlockSizes : MergeCatFile(kind, indices, block_size)
    \/ Return

Spec == Init /\ [][Next]_vars

(***************************************************************************)
(* An indexer call seen with its collaborator: fs.cat_ranges fetches the   *)
(* requested ranges concurrently, one fetch per range; a fetch delivers    *)
(* the bytes of its range, fewer bytes than asked (a short read), or an    *)
(* error.  cat_ranges returns when every fetch is over, with one entry per *)
(* range in request order, an error standing in the list in place of the   *)
(* bytes (on_error = "return", the default).                               *)
(***************************************************************************)
Pending == [NoOutcome EXCEPT !.status = "pending"]

\* what a fetch of range r can deliver: all of it, all but the last byte, all but
\* the last region, or an error
Deliveries(kind, d, r) ==
    { [status |-> "ok", bytes |-> SubSeq(ReadRange(r), 1, (r[2] - r[1]) - short)] :
        short \in {0, 1, RegionSize(kind, d)} }
        \cup { [status |-> "error", bytes |-> <<>>] }

\* fault variant of Gathered: the entries in the order the fetches completed
GatheredByArrival(arr, n) == [k \in 1..n |-> arr[k]]

\* the list cat_ranges returns: the entry of each range at the range's position
Gathered(arr, n) ==
    [k \in 1..n |-> arr[CHOOSE j \in DOMAIN arr : arr[j].position = k]]

\* b"".join(buffer_bytes) raises TypeError on an entry that is an exception
JoinRaises(results) == \E k \in DOMAIN results : results[k].status = "error"

\* indexer[indices] up to the call of fs.cat_ranges, for in-range indices
StartFetch(kind, indices) ==
    /\ call' = [op |-> "getitem", kind |-> kind, item |-> ListItem(indices),
                block_size |-> DefaultBlockSize]
    /\ requests' = MergedRequests(indices_to_byte_ranges(kind, spec, indices),
                                  DefaultBlockSize)
    /\ fetches' = 1
    /\ arrived' = <<>>
    /\ buffer' = <<>>
    /\ outcome' = Pending
    /\ UNCHANGED <<indexerVars, registryVars>>

\* the fetch of the k-th requested range completes
Complete(k, delivery) ==
    /\ outcome.status = "pending"
    /\ \A j \in DOMAIN arrived : arrived[j].position # k
    /\ arrived' = Append(arrived, [position |-> k, status |-> delivery.status,
                                   bytes |-> delivery.bytes])
    /\ UNCHANGED <<indexerVars, registryVars, call, requests, buffer, fetches, outcome>>

\* cat_ranges returns; merge_cat_file joins, decode and post_process follow
FinishFetch ==
    /\ outcome.status = "pending"
    /\ Len(arrived) = Len(requests)
    /\ LET results == Gathered(arrived, Len(requests))
           buf == Concat([k \in DOMAIN results |-> results[k].bytes])
       IN  IF JoinRaises(results)
           THEN /\ buffer' = <<>>
                /\ outcome' = Raised("TypeError", "join")
           ELSE /\ buffer' = buf
                /\ outcome' = DecodeAndProcess(call.kind, spec, postprocess_kwargs,
                                                host, buf)
    /\ UNCHANGED <<indexerVars, registryVars, call, requests, fetches, arrived>>

\* an indexer on the IBM file of three traces, no post-processing options
InitTransport ==
    /\ spec = Descriptor(3, <<1, 2>>, 2, 4, "ibm32", "big")
    /\ max_value = 3
    /\ postprocess_kwargs = KwargsEmpty
    /\ host = "little"
    /\ Idle
    /\ RegistryInit

NextTransport ==
    \/ /\ call = NoCall
       /\ \E kind \in Kinds, indices \in SeqsUpTo(0..(max_value - 1), MaxLen) :
             StartFetch(kind, indices)
    \/ \E k \in DOMAIN requests :
          \E delivery \in Deliveries(call.kind, spec, requests[k]) : Complete(k, delivery)
    \/ FinishFetch
    \/ Return

SpecTransport == InitTransport /\ [][NextTransport]_vars

(***************************************************************************)
(* The registry of standards (standards/registry.py) and its callers.      *)
(***************************************************************************)
RegistryCall(op, what) == [op |-> op, kind |-> what, item |-> OtherItem, block_size |-> 0]

\* the program after the standards were imported: the Rev0 descriptors exist, the
\* registry is still empty and no indexer operation is under way
InitRegistry ==
    /\ spec = Descriptor(100, <<2, 2>>, 3, 2, "int16", "big")
    /\ max_value = 6
    /\ postprocess_kwargs = KwargsEmpty
    /\ host = "little"
    /\ Idle
    /\ registry = <<>>
    /\ handles = <<>>
    /\ heap = Rev0Objects

\* register_spec(spec_type, spec): the dict entry refers to the object itself
register_spec(spec_type, id) ==
    /\ registry' = (spec_type :> id) @@ registry
    /\ call' = RegistryCall("register_spec", spec_type)
    /\ outcome' = Returned(<<>>, <<>>, "none")
    /\ UNCHANGED <<indexerVars, requests, buffer, fetches, arrived, handles, heap>>

\* fault variant of registry_get: a missing key falls back on a registered standard
registry_get_fallback(reg, spec_type) ==
    IF spec_type \in DOMAIN reg THEN Some(reg[spec_type])
    ELSE IF DOMAIN reg = {} THEN None
    ELSE Some(reg[CHOOSE k \in DOMAIN reg : TRUE])

\* registry.get(spec_type): the registered descriptor, or None for a missing key
registry_get(reg, spec_type) ==
    IF spec_type \in DOMAIN reg THEN Some(reg[spec_type]) ELSE None

\* get_spec(spec_type): NotImplementedError naming spec_type when it is not
\* registered, else a copy of the registered descriptor, which the caller keeps
get_spec(spec_type) ==
    /\ Len(handles) < MaxHandles
    /\ call' = RegistryCall("get_spec", spec_type)
    /\ LET found == registry_get(registry, spec_type)
       IN  IF found = None
           THEN /\ outcome' = Raised("NotImplementedError", spec_type)
                /\ UNCHANGED <<handles, heap>>
           ELSE LET copy == CopyOnGet(heap, found[1])
                IN  /\ heap' = copy.heap
                    /\ handles' = Append(handles, copy.id)
                    /\ outcome' = Returned(<<>>, <<>>, "descriptor")
    /\ UNCHANGED <<indexerVars, requests, buffer, fetches, arrived, registry>>

\* what callers assign on a descriptor they hold, and where
Slots == {"segy_standard", "text_file_header.rows", "binary_file_header.fields",
          "trace.data_descriptor.samples"}

\* the heap after the assignment to the slot of the descriptor with identity id
Assigned(h, id, slot) ==
    CASE slot = "segy_standard" ->
            [h EXCEPT ![id].segy_standard = "CUSTOM"]
      [] slot = "text_file_header.rows" ->
            [h EXCEPT ![h[id].text_file_header].rows = 20]
      [] slot = "binary_file_header.fields" ->
            [h EXCEPT ![h[id].binary_file_header].fields =
                          <<Field("job_id", 0, "int32", "little")>>]
      [] slot = "trace.data_descriptor.samples" ->
            [h EXCEPT ![h[h[id].trace].data_descriptor].samples = Some(4)]

\* a caller mutates a descriptor it got from get_spec
Mutate(k, slot) ==
    /\ heap' = Assigned(heap, handles[k], slot)
    /\ call' = RegistryCall("mutate", slot)
    /\ outcome' = Returned(<<>>, <<>>, "none")
    /\ UNCHANGED <<indexerVars, requests, buffer, fetches, arrived, registry, handles>>

NextRegistry ==
    \/ /\ "REV0" \notin DOMAIN registry
       /\ register_spec("REV0", Rev0SegyId)
    \/ \E spec_type \in SegyStandard : get_spec(spec_type)
    \/ \E k \in DOMAIN handles, slot \in Slots : Mutate(k, slot)

SpecRegistry == InitRegistry /\ [][NextRegistry]_vars

(***************************************************************************)
(* The layout a structured descriptor compiles to (schema/data_type.py):   *)
(* each field at its offset with the width of its format, gaps unnamed,    *)
(* item_size bytes in all.                                                 *)
(***************************************************************************)
\* width-in-bytes of a ScalarType
width(format) ==
    CASE format \in {"int8", "uint8"} -> 1
      [] format \in {"int16", "uint16"} -> 2
      [] format \in {"int32", "uint32", "float32", "ibm32"} -> 4
      [] format \in {"int64", "uint64", "float64"} -> 8

\* the compiled layout: (name, offset, width, endianness) in declaration order
layout(d) ==
    [k \in DOMAIN d.fields |->
        [name |-> d.fields[k].name, offset |-> d.fields[k].offset,
         width |-> width(d.fields[k].format), endianness |-> d.fields[k].endianness]]

\* the bytes of [0, item_size) that no field of the layout covers
padding(d) ==
    LET L == layout(d)
        covered == UNION { L[k].offset..(L[k].offset + L[k].width - 1) : k \in DOMAIN L }
    IN  Cardinality((0..(d.item_size[1] - 1)) \ covered)

\* dtype.itemsize: the sum of the field widths plus the padding
itemsize(d) ==
    LET L == layout(d)
    IN  Sum([k \in DOMAIN L |-> L[k].width]) + padding(d)

(***************************************************************************)
(* SegyDescriptor.customize (schema/segy.py) and a caller that customizes  *)
(* rev0_segy and then the descriptors customize returned.                  *)
(***************************************************************************)
\* descriptors a caller builds to pass to customize
custom_text_header ==
    [cls |-> "TextHeaderDescriptor", rows |-> 40, cols |-> 80, offset |-> 0,
     encoding |-> "ascii", format |-> "uint8"]

custom_extended_text ==
    [cls |-> "TextHeaderDescriptor", rows |-> 40, cols |-> 80, offset |-> 3600,
     encoding |-> "ascii", format |-> "uint8"]

custom_trace_data ==
    [cls |-> "TraceDataDescriptor", format |-> "float32", endianness |-> "little",
     samples |-> Some(4)]

CallerObjects == << custom_text_header, custom_extended_text, custom_trace_data >>

\* their identities in the heap Rev0Objects \o CallerObjects
CustomTextId == Len(Rev0Objects) + 1
CustomExtendedId == Len(Rev0Objects) + 2
CustomDataId == Len(Rev0Objects) + 3

\* a field list a caller passes: None when omitted, else a list, possibly empty
FieldLists == {None, Some(<<>>), Some(<<Field("job_id", 0, "int32", "little"),
                                        Field("line_no", 4, "int32", "little")>>)}

\* the arguments of customize; identity 0 stands for an omitted descriptor
CustomizeArgs ==
    [text_header_spec : {0, CustomTextId},
     binary_header_fields : FieldLists,
     extended_text_spec : {0, CustomExtendedId},
     trace_header_fields : FieldLists,
     trace_data_spec : {0, CustomDataId}]

\* `if descriptor:` on an argument that is a descriptor or None
DescriptorIsTrue(id) == id # 0

\* `if fields:` on an argument that is a list or None: an empty list is false
ListIsTrue(l) == l # None /\ Len(l[1]) > 0

\* self.customize(...): the heap with the new descriptor, and its identity
customize(h, self, a) ==
    LET copy == DeepCopy(h, self)
        new == copy.id
        h0 == [copy.heap EXCEPT ![new].segy_standard = "CUSTOM"]
        h1 == IF DescriptorIsTrue(a.text_header_spec)
              THEN [h0 EXCEPT ![new].text_file_header = a.text_header_spec]
              ELSE h0
        h2 == IF ListIsTrue(a.binary_header_fields)
              THEN [h1 EXCEPT ![h1[new].binary_file_header].fields =
                                 a.binary_header_fields[1]]
              ELSE h1
        h3 == IF DescriptorIsTrue(a.extended_text_spec)
              THEN [h2 EXCEPT ![new].extended_text_header = a.extended_text_spec]
              ELSE h2
        h4 == IF ListIsTrue(a.trace_header_fields)
              THEN [h3 EXCEPT ![h3[h3[new].trace].header_descriptor].fields =
                                 a.trace_header_fields[1]]
              ELSE h3
        h5 == IF DescriptorIsTrue(a.trace_data_spec)
              THEN [h4 EXCEPT ![h4[new].trace].data_descriptor = a.trace_data_spec]
              ELSE h4
    IN  [heap |-> h5, id |-> new]

CustomizeCall(self, a) ==
    [op |-> "customize", kind |-> "segy", item |-> OtherItem, block_size |-> 0,
     receiver |-> self, args |-> a]

\* the program after rev0.py was imported and the caller built its descriptors
InitCustomize ==
    /\ spec = Descriptor(100, <<2, 2>>, 3, 2, "int16", "big")
    /\ max_value = 6
    /\ postprocess_kwargs = KwargsEmpty
    /\ host = "little"
    /\ Idle
    /\ registry = <<>>
    /\ handles = <<>>
    /\ heap = Rev0Objects \o CallerObjects

\* the caller customizes a descriptor and keeps the result
Customize(self, a) ==
    /\ LET r == customize(heap, self, a)
       IN  /\ heap' = r.heap
           /\ handles' = Append(handles, r.id)
    /\ call' = CustomizeCall(self, a)
    /\ outcome' = Returned(<<>>, <<>>, "descriptor")
    /\ UNCHANGED <<indexerVars, requests, buffer, fetches, arrived, registry>>

\* the descriptor the caller customizes next: rev0_segy, then the latest result
Receiver == IF handles = <<>> THEN Rev0SegyId ELSE handles[Len(handles)]

NextCustomize ==
    /\ Len(handles) < MaxHandles
    /\ \E a \in CustomizeArgs : Customize(Receiver, a)

SpecCustomize == InitCustomize /\ [][NextCustomize]_vars

(***************************************************************************)
(* Callers that get descriptors from the registry and customize them with  *)
(* header field lists of their own, sound ones and unsound ones.           *)
(***************************************************************************)
\* field lists a caller passes to customize: none, two fields side by side, two
\* fields sharing bytes 2 and 3, a field ending after either header's item_size,
\* and two fields of one name
SchemaFieldLists ==
    {None,
     Some(<<Field("job_id", 0, "int32", "big"), Field("line_no", 4, "int32", "big")>>),
     Some(<<Field("job_id", 0, "int32", "big"), Field("line_no", 2, "int32", "big")>>),
     Some(<<Field("job_id", 0, "int32", "big"), Field("line_no", 398, "int32", "big")>>),
     Some(<<Field("job_id", 0, "int32", "big"), Field("job_id", 4, "int32", "big")>>)}

\* the arguments of customize with these field lists
SchemaArgs ==
    [text_header_spec : {0, CustomTextId},
     binary_header_fields : SchemaFieldLists,
     extended_text_spec : {0, CustomExtendedId},
     trace_header_fields : SchemaFieldLists,
     trace_data_spec : {0, CustomDataId}]

NextSchema ==
    \/ /\ "REV0" \notin DOMAIN registry
       /\ register_spec("REV0", Rev0SegyId)
    \/ \E spec_type \in SegyStandard : get_spec(spec_type)
    \/ /\ Len(handles) < MaxHandles
       /\ \E k \in DOMAIN handles, a \in SchemaArgs : Customize(handles[k], a)

SpecSchema == InitCustomize /\ [][NextSchema]_vars

(***************************************************************************)
(* Text headers (schema/header.py): a string is encoded to rows * cols     *)
(* bytes in the declared encoding and decoded back.  Characters are code   *)
(* points, bytes are 0..255.                                               *)
(***************************************************************************)
TextHeader(rows, cols, encoding) ==
    [cls |-> "TextHeaderDescriptor", rows |-> rows, cols |-> cols, offset |-> 0,
     encoding |-> encoding, format |-> "uint8"]

\* text headers of 2 and of 4 characters, in the encodings of rev0 and of the tests
TextHeaders ==
    { TextHeader(rows, rev0_textual_file_header.cols \div 40, encoding) :
        rows \in {1, 2}, encoding \in {rev0_textual_file_header.encoding, "ascii"} }

\* the characters of the strings tried: space, 1, A and [
Alphabet == {32, 49, 65, 91}

\* code page 037 for these characters: it differs from code page 500 on [
cp037_encode(c) ==
    CASE c = 32 -> 64
      [] c = 49 -> 241
      [] c = 65 -> 193
      [] c = 91 -> 186

\* code page 500: character to byte
cp500_encode(c) ==
    CASE c = 32 -> 64
      [] c = 49 -> 241
      [] c = 65 -> 193
      [] c = 91 -> 74

\* code page 500: byte to character (byte 186 is the not sign)
cp500_decode(b) ==
    CASE b = 64 -> 32
      [] b = 241 -> 49
      [] b = 193 -> 65
      [] b = 74 -> 91
      [] b = 186 -> 172

\* the string padded with spaces to n characters
ljust(s, n) == s \o [k \in 1..(n - Len(s)) |-> 32]

\* encode(str): padded with spaces to rows * cols, then one byte per character
text_encode(d, s) ==
    LET padded == ljust(s, d.rows * d.cols)
    IN  [k \in DOMAIN padded |->
            IF d.encoding = "ebcdic" THEN cp500_encode(padded[k]) ELSE padded[k]]

\* decode(bytes): one character per byte
text_decode(d, b) ==
    [k \in DOMAIN b |-> IF d.encoding = "ebcdic" THEN cp500_decode(b[k]) ELSE b[k]]

\* the strings a text header takes: no longer than rows * cols
Texts(d) == { s \in SeqsUpTo(Alphabet, MaxLen) : Len(s) <= d.rows * d.cols }

TextCall(op, d, s) ==
    [op |-> op, kind |-> "text", item |-> OtherItem, block_size |-> 0,
     descriptor |-> d, text |-> s]

\* descriptor.encode(s): the bytes are kept in buffer
EncodeText(d, s) ==
    /\ call' = TextCall("encode", d, s)
    /\ buffer' = text_encode(d, s)
    /\ outcome' = Returned(<<>>, <<>>, "bytes")
    /\ UNCHANGED <<indexerVars, registryVars, requests, fetches, arrived>>

\* descriptor.decode(buffer) on the bytes just encoded: the string is returned
DecodeText ==
    /\ call.op = "encode"
    /\ call' = [call EXCEPT !.op = "decode"]
    /\ outcome' = Returned(<<>>, text_decode(call.descriptor, buffer), "str")
    /\ UNCHANGED <<indexerVars, registryVars, requests, fetches, arrived, buffer>>

InitText ==
    /\ spec = Descriptor(100, <<2, 2>>, 3, 2, "int16", "big")
    /\ max_value = 6
    /\ postprocess_kwargs = KwargsEmpty
    /\ host = "little"
    /\ Idle
    /\ RegistryInit

NextText ==
    \/ /\ call = NoCall
       /\ \E d \in TextHeaders : \E s \in Texts(d) : EncodeText(d, s)
    \/ DecodeText
    \/ Return

SpecText == InitText /\ [][NextText]_vars

(***************************************************************************)
(* What the properties below speak about.                                  *)
(***************************************************************************)
\* the trace indices the last indexer call selected
Selected ==
    CASE call.item.type = "int" -> <<call.item.i>>
      [] call.item.type = "list" -> call.item.l
      [] call.item.type = "slice" /\ call.item.step # Some(0) ->
            SliceIndices(call.item, max_value)
      [] OTHER -> <<>>

InRange(indices) == \A k \in DOMAIN indices : indices[k] >= 0 /\ indices[k] < max_value
Increasing(indices) == \A j, k \in DOMAIN indices : j < k => indices[j] < indices[k]
Distinct(indices) == \A j, k \in DOMAIN indices : j # k => indices[j] # indices[k]

\* the byte range of trace i's region, by the formulas of the range planner
FullRange(i) ==
    <<spec.offset + i * (HeaderItemsize(spec) + DataItemsize(spec)),
      spec.offset + i * (HeaderItemsize(spec) + DataItemsize(spec))
          + (HeaderItemsize(spec) + DataItemsize(spec))>>
HeaderOnlyRange(i) ==
    <<spec.offset + i * (HeaderItemsize(spec) + DataItemsize(spec)),
      spec.offset + i * (HeaderItemsize(spec) + DataItemsize(spec)) + HeaderItemsize(spec)>>
DataOnlyRange(i) ==
    <<spec.offset + i * (HeaderItemsize(spec) + DataItemsize(spec)) + HeaderItemsize(spec),
      spec.offset + i * (HeaderItemsize(spec) + DataItemsize(spec))
          + (HeaderItemsize(spec) + DataItemsize(spec))>>
RegionRange(kind, i) ==
    CASE kind = "trace" -> FullRange(i)
      [] kind = "header" -> HeaderOnlyRange(i)
      [] kind = "data" -> DataOnlyRange(i)

\* the record of trace i read on its own, by a reference byte-range read
Reference(kind, i) == DecodeOne(kind, spec, ReadRange(RegionRange(kind, i)), host)

GotItem == call.op = "getitem" /\ outcome.status = "ok"

(***************************************************************************)
(* Properties of the indexers and of the range planner.                    *)
(***************************************************************************)

\* C1: for a list I of in-range trace indices in any order, the record at position
\* k of the result is trace I[k].  It is stated on lists without repeated indices,
\* so that what it tests is the order alone.
C1_OutputFollowsIndexOrder ==
    (GotItem /\ call.item.type = "list" /\ Distinct(call.item.l)) =>
        /\ Len(outcome.records) = Len(call.item.l)
        /\ \A k \in DOMAIN call.item.l :
              outcome.records[k] = Reference(call.kind, call.item.l[k])

\* the leading axis of the result counts n records
ArrayOf(n) == outcome.shape # <<>> /\ outcome.shape[1] = n /\ Len(outcome.records) = n

\* the result is one record without a leading axis
BareRecord ==
    /\ Len(outcome.records) = 1
    /\ outcome.shape = squeeze(Tail(DecodedShape(call.kind, spec, 1)))

\* C2: an integer index returns one bare record; a list of n >= 1 in-range indices
\* returns an array of exactly n records, also when n = 1 and when indices repeat.
C2_ShapeFollowsSelector ==
    GotItem =>
        /\ call.item.type = "int" => BareRecord
        /\ (call.item.type = "list" /\ Len(call.item.l) >= 1) => ArrayOf(Len(call.item.l))

\* the regions of the selected traces, read one by one and concatenated in index order
ExpectedBuffer(kind, indices) ==
    Concat([k \in DOMAIN indices |-> ReadRange(RegionRange(kind, indices[k]))])

\* C3: for one in-range index, and for any strictly increasing list of in-range
\* indices, the buffer handed to decode is the concatenation, in index order, of
\* the bytes of each selected trace's region: its length is the number of indices
\* times the region size and it holds no byte from between two regions, whatever
\* was coalesced and whatever the block size.
C3_BufferIsSelectedRegions ==
    (/\ fetches = 1
     /\ call.item.type \in {"int", "list"}
     /\ InRange(Selected) /\ Increasing(Selected)) =>
        /\ buffer = ExpectedBuffer(call.kind, Selected)
        /\ Len(buffer) = Len(Selected) * RegionSize(call.kind, spec)

\* C3 witness: three whole traces, two of them coalesced into one request
C3_Witness ==
    /\ call.op = "getitem" /\ call.kind = "trace" /\ call.item.l = <<0, 1, 5>>
    /\ Len(requests) = 2
    /\ Len(buffer) = 30
    /\ buffer = ExpectedBuffer("trace", <<0, 1, 5>>)

\* the indices of an integer or list selection that lie outside [0, trace_count)
Violating == { Selected[k] : k \in { j \in DOMAIN Selected :
                                        Selected[j] < 0 \/ Selected[j] >= max_value } }

\* C4: an integer or list selection with an index < 0 or >= trace_count raises
\* OutOfBounds, and the error reports every violating index and the valid range
\* [0, trace_count).
C4_OutOfBoundsReportsRange ==
    (call.op = "getitem" /\ call.item.type \in {"int", "list"} /\ Violating # {}) =>
        /\ outcome.status = "IndexError"
        /\ Range(outcome.outliers) = Violating
        /\ outcome.upper = max_value

\* C5: a slice with step 0 always fails with BadSlice (ValueError), whatever its
\* start and stop, and before anything is fetched: the step is checked before the
\* bounds.
C5_StepZeroIsBadSlice ==
    (call.op = "getitem" /\ call.item.type = "slice" /\ call.item.step = Some(0)) =>
        /\ outcome.status = "ValueError"
        /\ outcome.error = "step0"
        /\ fetches = 0

\* C5 witness: a step-0 slice whose bounds are out of range has been rejected
C5_Witness ==
    /\ call.op = "getitem" /\ call.item.type = "slice" /\ call.item.step = Some(0)
    /\ call.item.start = Some(0 - 1) /\ call.item.stop = Some(max_value + 1)
    /\ outcome.status = "ValueError"

\* the slice's start and stop - 1 pass the bounds check, with start = 0 and
\* stop = trace_count standing in for an omitted bound
SliceBoundsPass ==
    LET start == IF call.item.start = None THEN 0 ELSE call.item.start[1]
        stop == IF call.item.stop = None THEN max_value ELSE call.item.stop[1]
    IN  start >= 0 /\ start < max_value /\ stop - 1 >= 0 /\ stop - 1 < max_value

\* C6: a slice with a negative step is accepted if and only if its start and stop
\* describe a non-empty selection under half-open semantics; one that selects no
\* trace is rejected and nothing is fetched for it.  It is stated on the slices
\* whose start and stop - 1 are within bounds.
C6_NegativeStepNeedsSelection ==
    (/\ call.op = "getitem" /\ call.item.type = "slice"
     /\ call.item.step # None /\ SliceStep(call.item) < 0
     /\ SliceBoundsPass) =>
        /\ (outcome.error \notin {"bounds", "step0"}) <=> (Selected # <<>>)
        /\ Selected = <<>> => fetches = 0

\* C7: for every trace index i the three indexers compute the ranges
\* full = [offset + i*stride, offset + i*stride + stride),
\* header_only = [offset + i*stride, offset + i*stride + header_size),
\* data_only = [offset + i*stride + header_size, offset + i*stride + stride);
\* a trace's header and data ranges are adjacent and together its full range, and
\* the full ranges of distinct traces are disjoint.  A single in-range index is
\* requested as exactly that range.
C7_RegionRanges ==
    /\ \A i \in 0..(max_value - 1) :
          /\ TraceRanges(spec, <<i>>) = <<FullRange(i)>>
          /\ HeaderRanges(spec, <<i>>) = <<HeaderOnlyRange(i)>>
          /\ DataRanges(spec, <<i>>) = <<DataOnlyRange(i)>>
          /\ HeaderRanges(spec, <<i>>)[1][1] = TraceRanges(spec, <<i>>)[1][1]
          /\ HeaderRanges(spec, <<i>>)[1][2] = DataRanges(spec, <<i>>)[1][1]
          /\ DataRanges(spec, <<i>>)[1][2] = TraceRanges(spec, <<i>>)[1][2]
          /\ \A j \in 0..(max_value - 1) :
                i < j => TraceRanges(spec, <<i>>)[1][2] <= TraceRanges(spec, <<j>>)[1][1]
    /\ (call.op = "getitem" /\ call.item.type = "int" /\ fetches = 1) =>
          requests = <<RegionRange(call.kind, call.item.i)>>

\* C7 witness: the data of trace 1 was requested, after the header of trace 1
C7_Witness ==
    /\ call.op = "getitem" /\ call.kind = "data" /\ call.item.type = "int"
    /\ call.item.i = 1
    /\ requests = <<DataOnlyRange(1)>>
    /\ requests[1][1] = spec.offset + TraceItemsize(spec) + HeaderItemsize(spec)

ScenarioS4 ==
    /\ call.op = "merge_cat_file" /\ call.kind = "trace" /\ call.block_size = 16
    /\ spec.offset = 100 /\ HeaderItemsize(spec) = 4 /\ DataItemsize(spec) = 6
    /\ call.item.l = <<0, 1, 5>>

\* C9, as claimed: in scenario S4 the raw ranges are [100,110), [110,120),
\* [150,160) and the coalesced plan is exactly [100,120) and [150,160).
C9_ScenarioS4TwoRanges ==
    ScenarioS4 =>
        /\ TraceRanges(spec, call.item.l) = <<<<100, 110>>, <<110, 120>>, <<150, 160>>>>
        /\ requests = <<<<100, 120>>, <<150, 160>>>>

\* C9, amended: in scenario S4 the raw ranges are [100,110), [110,120), [150,160)
\* and the plan is these three ranges unchanged: coalescing the first two would
\* span 20 bytes, more than the block of 16.
C9_ScenarioS4ThreeRanges ==
    ScenarioS4 =>
        /\ TraceRanges(spec, call.item.l) = <<<<100, 110>>, <<110, 120>>, <<150, 160>>>>
        /\ requests = <<<<100, 110>>, <<110, 120>>, <<150, 160>>>>

\* C9 witness: scenario S4 was planned
C9_Witness == ScenarioS4 /\ Len(requests) = 3 /\ Len(buffer) = 30

\* between the k-th requested range and the next: the bytes skipped, and the
\* bytes one range over both would span
Gap(k) == requests[k + 1][1] - requests[k][2]
Span(k) == requests[k + 1][2] - requests[k][1]

\* the call selected one or more consecutive traces, in file order
ConsecutiveTraces ==
    /\ Selected # <<>>
    /\ \A k \in 1..(Len(Selected) - 1) : Selected[k + 1] = Selected[k] + 1

CeilDiv(a, b) == (a + b - 1) \div b

RawRecord(k) == Frombuffer(buffer, RegionSize(call.kind, spec))[k]

\* the header bytes and the data bytes of a raw region of the call's kind
RawHeader(raw) ==
    IF call.kind = "data" THEN <<>> ELSE SubSeq(raw, 1, HeaderItemsize(spec))
RawData(raw) ==
    CASE call.kind = "header" -> <<>>
      [] call.kind = "data" -> raw
      [] call.kind = "trace" -> SubSeq(raw, HeaderItemsize(spec) + 1, Len(raw))

\* the declared byte order is neither native nor the host's
ForeignByteOrder == spec.endianness # "native" /\ spec.endianness # host

\* the bytes as the claim has them after decode's swap step
SwappedIfForeign(b, widths) ==
    IF ForeignByteOrder /\ b # <<>> THEN SwapFields(b, widths) ELSE b

\* C19: in the decode step of all three indexers the bytes are swapped if and
\* only if the declared endianness is neither native nor equal to the host's;
\* when it is the host's or native the buffer is left unswapped.  Data samples
\* are compared when they are not IBM floats, which decode rewrites anyway.
C19_SwapOnlyForeignByteOrder ==
    (call.op = "getitem" /\ fetches = 1) =>
        \A k \in DOMAIN outcome.records :
            /\ outcome.records[k].header =
                  SwappedIfForeign(RawHeader(RawRecord(k)), spec.header_widths)
            /\ spec.format # "ibm32" =>
                  outcome.records[k].data =
                      SwappedIfForeign(RawData(RawRecord(k)), SampleWidths(spec))

\* the region of the call's kind includes sample data of IBM floats
ConvertsSamples == call.kind \in {"trace", "data"} /\ spec.format = "ibm32"

\* C20: decode converts IBM floats to float32 exactly when the region includes
\* sample data and the data format is ibm32, so in TraceIndexer and DataIndexer
\* and never in HeaderIndexer.  For whole traces the conversion changes the
\* sample block only: the header bytes of every record are those the swap step
\* left, in the header's byte order, a record is as wide as before, there are
\* as many records as regions in the buffer, and the data field is float32.
C20_IbmConversionTouchesOnlySamples ==
    (call.op = "getitem" /\ fetches = 1 /\ outcome.status = "ok") =>
        /\ Len(outcome.records) = Len(buffer) \div RegionSize(call.kind, spec)
        /\ \A k \in DOMAIN outcome.records :
              LET rec == outcome.records[k]
                  raw == RawRecord(k)
                  swapped == SwapFields(RawData(raw), SampleWidths(spec))
              IN  /\ rec.data_format = "float32" <=> ConvertsSamples
                  /\ ~ConvertsSamples =>
                        /\ rec.data_format =
                              (IF call.kind = "header" THEN "none" ELSE spec.format)
                        /\ call.kind # "header" => rec.data = swapped
                  /\ call.kind = "trace" =>
                        /\ rec.header =
                              SwapFields(RawHeader(raw), spec.header_widths)
                        /\ rec.byteorder = Flip(spec.endianness, host)
                        /\ Len(rec.header) + Len(rec.data) = TraceItemsize(spec)
                        /\ ConvertsSamples =>
                              /\ rec.data =
                                    ConvertSamples(swapped, rec.byteorder, host)
                              /\ rec.data_byteorder = host

\* whole traces of IBM floats were read: two records came back with their
\* headers as the swap step left them and their samples converted
C20_Witness ==
    /\ call.op = "getitem" /\ call.kind = "trace" /\ fetches = 1
    /\ outcome.status = "ok"
    /\ spec.format = "ibm32"
    /\ Len(outcome.records) = 2
    /\ \A k \in DOMAIN outcome.records :
          /\ outcome.records[k].data_format = "float32"
          /\ outcome.records[k].header =
                SwapFields(RawHeader(RawRecord(k)), spec.header_widths)
          /\ outcome.records[k].data #
                SwapFields(RawData(RawRecord(k)), SampleWidths(spec))

\* the headers-as-table option is true: postprocess_kwargs is a dict whose
\* "pandas_headers" is true
HeadersAsTable ==
    /\ ~postprocess_kwargs.is_none
    /\ postprocess_kwargs.has_key
    /\ postprocess_kwargs.value

\* C17: when the headers-as-table option is false or absent, also when the indexer
\* was constructed without any post-processing configuration, TraceIndexer and
\* HeaderIndexer return structured arrays; when it is true TraceIndexer returns
\* {header: table, data: array} and HeaderIndexer a table; DataIndexer returns the
\* same result whatever the option.
C17_PostProcessFollowsOption ==
    (call.op = "getitem" /\ fetches = 1) =>
        /\ outcome.status = "ok"
        /\ outcome.records = decode(call.kind, spec, buffer, host)
        /\ outcome.form =
              CASE call.kind = "trace" /\ HeadersAsTable -> "header_table_and_data"
                [] call.kind = "header" /\ HeadersAsTable -> "table"
                [] OTHER -> "array"
        /\ call.kind = "data" =>
              outcome = getitem("data", spec, max_value, KwargsEmpty, host,
                                call.item).outcome

(***************************************************************************)
(* Properties of an indexer call and its range fetches.                    *)
(***************************************************************************)
\* the indexer call is over: it returned or raised
Finished == call.op = "getitem" /\ outcome.status \notin {"idle", "pending"}

\* how many bytes the k-th requested range asks for
Asked(k) == requests[k][2] - requests[k][1]

\* some fetch delivered fewer bytes than its range asked for
ShortRead ==
    \E j \in DOMAIN arrived :
        arrived[j].status = "ok" /\ Len(arrived[j].bytes) < Asked(arrived[j].position)

\* some fetch failed or was cancelled
FetchFailed == \E j \in DOMAIN arrived : arrived[j].status = "error"

\* C15: if the range-fetch collaborator returns fewer bytes than requested for any
\* coalesced range, the indexer call fails (TruncatedBuffer) and returns no
\* records; a short read that drops a whole number of records is not returned as
\* a shorter result.
C15_ShortReadFailsTheCall ==
    (Finished /\ ShortRead) =>
        /\ outcome.status # "ok"
        /\ outcome.records = <<>>

\* C16: with one fetch per coalesced range, completing in any order, the
\* reassembled buffer and the decoded result are those of the call with its
\* ranges read in request order, whatever the completion order; and if any fetch
\* fails or is cancelled the call fails as a whole and exposes no buffer and no
\* record.
C16_CompletionOrderIsInvisible ==
    Finished =>
        /\ (~ShortRead /\ ~FetchFailed) =>
              /\ buffer = merge_cat_file(
                              indices_to_byte_ranges(call.kind, spec, call.item.l),
                              DefaultBlockSize)
              /\ outcome = FetchAndProcess(call.kind, spec, postprocess_kwargs, host,
                                            call.item.l).outcome
        /\ ~FetchFailed =>
              buffer = Concat([k \in DOMAIN requests |->
                          arrived[CHOOSE j \in DOMAIN arrived :
                                      arrived[j].position = k].bytes])
        /\ FetchFailed =>
              /\ outcome.status \notin {"ok", "idle", "pending"}
              /\ outcome.records = <<>>
              /\ buffer = <<>>

\* C16 witness: three header ranges completed last first, and the call returned
\* the three headers in request order
C16_Witness ==
    /\ Finished /\ call.kind = "header" /\ call.item.l = <<0, 1, 2>>
    /\ Len(requests) = 3
    /\ arrived[1].position = 3 /\ arrived[2].position = 2 /\ arrived[3].position = 1
    /\ ~ShortRead /\ ~FetchFailed
    /\ outcome.status = "ok" /\ Len(outcome.records) = 3
    /\ buffer = ExpectedBuffer("header", <<0, 1, 2>>)

(***************************************************************************)
(* Properties of the registry.                                             *)
(***************************************************************************)
\* the value rev0_segy was registered with
Rev0SegyValue == SegyValue(Rev0Objects, Rev0SegyId)

\* the descriptor the last get_spec returned
LastHandle == handles[Len(handles)]

\* C10: get(standard) on a registered standard returns a descriptor equal in value
\* to the registered one but a distinct object, down to its nested children:
\* whatever callers assigned on descriptors they got before, also on their header
\* and trace children, the registered descriptor keeps its value and the next get
\* returns that value.
C10_GetReturnsDeepCopy ==
    /\ "REV0" \in DOMAIN registry => SegyValue(heap, registry["REV0"]) = Rev0SegyValue
    /\ (call.op = "get_spec" /\ outcome.status = "ok") =>
          /\ SegyValue(heap, LastHandle) = Rev0SegyValue
          /\ SegyObjects(heap, LastHandle)
                \cap SegyObjects(heap, registry[call.kind]) = {}
          /\ \A k \in 1..(Len(handles) - 1) :
                SegyObjects(heap, LastHandle) \cap SegyObjects(heap, handles[k]) = {}

\* C10 witness: a descriptor got earlier was changed in every slot, children
\* included, and a later get returned the registered value
C10_Witness ==
    /\ call.op = "get_spec" /\ outcome.status = "ok" /\ Len(handles) = 2
    /\ SegyValue(heap, handles[1]).segy_standard = "CUSTOM"
    /\ SegyValue(heap, handles[1]).text_file_header.rows = 20
    /\ Len(SegyValue(heap, handles[1]).binary_file_header.fields) = 1
    /\ SegyValue(heap, handles[1]).trace.data_descriptor.samples = Some(4)
    /\ SegyValue(heap, handles[2]) = Rev0SegyValue

\* C11: get(standard) for a standard that was never registered fails with
\* UnknownStandard (NotImplementedError) whose message names the requested key, and
\* the call leaves the registry as it was: no entry is made for the missing key and
\* the registered descriptors, and the copies handed out before, keep their values.
C11_UnknownStandardLeavesRegistry ==
    [][(call'.op = "get_spec" /\ call'.kind \notin DOMAIN registry) =>
          /\ outcome'.status = "NotImplementedError"
          /\ outcome'.error = call'.kind
          /\ registry' = registry
          /\ handles' = handles
          /\ heap' = heap]_vars

\* C11 witness: with REV0 registered and copied once, get_spec(REV1) has failed
C11_Witness ==
    /\ call.op = "get_spec" /\ call.kind = "REV1"
    /\ outcome.status = "NotImplementedError" /\ outcome.error = "REV1"
    /\ DOMAIN registry = {"REV0"} /\ registry["REV0"] = Rev0SegyId
    /\ Len(handles) = 1
    /\ SegyValue(heap, registry["REV0"]) = Rev0SegyValue

\* a header descriptor as customize must leave it when fields were provided: the
\* provided list in place of the whole previous list, the rest as the receiver's
WithFields(header, provided) ==
    IF provided = None THEN header ELSE [header EXCEPT !.fields = provided[1]]

\* C12: customize returns a new descriptor and leaves the receiver unchanged; in
\* the result segy_standard is custom, every slot an argument was provided for
\* holds exactly the provided value (a provided field list replaces the whole
\* previous list, also when the provided list is empty) and every slot not
\* provided equals the receiver's value.
C12_CustomizeOverwritesProvided ==
    [][call'.op = "customize" =>
          LET a == call'.args
              self == call'.receiver
              new == handles'[Len(handles')]
              R == SegyValue(heap, self)
              N == SegyValue(heap', new)
          IN  /\ new \notin DOMAIN heap
              /\ \A id \in DOMAIN heap : heap'[id] = heap[id]
              /\ SegyValue(heap', self) = R
              /\ N.segy_standard = "CUSTOM"
              /\ N.text_file_header =
                    IF a.text_header_spec # 0 THEN heap[a.text_header_spec]
                    ELSE R.text_file_header
              /\ N.binary_file_header =
                    WithFields(R.binary_file_header, a.binary_header_fields)
              /\ N.extended_text_header =
                    IF a.extended_text_spec # 0 THEN <<heap[a.extended_text_spec]>>
                    ELSE R.extended_text_header
              /\ N.trace.header_descriptor =
                    WithFields(R.trace.header_descriptor, a.trace_header_fields)
              /\ N.trace.data_descriptor =
                    IF a.trace_data_spec # 0 THEN heap[a.trace_data_spec]
                    ELSE R.trace.data_descriptor
              /\ N.trace.offset = R.trace.offset]_vars

(***************************************************************************)
(* Properties of the Rev0 descriptors.                                     *)
(***************************************************************************)
UniqueNames(d) ==
    \A j, k \in DOMAIN d.fields : j # k => d.fields[j].name # d.fields[k].name

NoOverlap(d) ==
    LET L == layout(d)
    IN  \A j, k \in DOMAIN L :
            j < k => \/ L[j].offset + L[j].width <= L[k].offset
                     \/ L[k].offset + L[k].width <= L[j].offset

WithinItemSize(d) ==
    LET L == layout(d)
    IN  \A k \in DOMAIN L : L[k].offset + L[k].width <= d.item_size[1]

HasField(d, name, offset, format, endianness) ==
    \E k \in DOMAIN d.fields : d.fields[k] = Field(name, offset, format, endianness)

\* the registered Rev0 descriptor, as a value
Registered == SegyValue(heap, registry["REV0"])

\* C13: for the registered Rev0 descriptor the declared item_size equals the size
\* of the compiled layout for both header descriptors: the binary file header is
\* 400 bytes with sample_interval at offset 16 as big-endian int16, the trace
\* header is 240 bytes with src_x at offset 72 as big-endian int32; in both field
\* lists names are unique, no two fields overlap and every field ends at or before
\* item_size.
C13_Rev0HeaderLayouts ==
    "REV0" \in DOMAIN registry =>
        LET binary == Registered.binary_file_header
            header == Registered.trace.header_descriptor
        IN  /\ binary.item_size = Some(400) /\ itemsize(binary) = 400
            /\ HasField(binary, "sample_interval", 16, "int16", "big")
            /\ header.item_size = Some(240) /\ itemsize(header) = 240
            /\ HasField(header, "src_x", 72, "int32", "big")
            /\ UniqueNames(binary) /\ NoOverlap(binary) /\ WithinItemSize(binary)
            /\ UniqueNames(header) /\ NoOverlap(header) /\ WithinItemSize(header)

\* C13 witness: Rev0 is registered, a copy was handed out and its binary header
\* fields were replaced, and the registered headers compile to 400 and 240 bytes
C13_Witness ==
    /\ "REV0" \in DOMAIN registry /\ registry["REV0"] = Rev0SegyId
    /\ Len(handles) >= 1
    /\ Len(SegyValue(heap, handles[1]).binary_file_header.fields) = 1
    /\ itemsize(Registered.binary_file_header) = 400
    /\ itemsize(Registered.trace.header_descriptor) = 240
    /\ Len(Registered.binary_file_header.fields) = 27
    /\ Len(Registered.trace.header_descriptor.fields) = 71

SchemaInvariants(d) == UniqueNames(d) /\ NoOverlap(d) /\ WithinItemSize(d)

\* the header descriptors of the descriptor with identity id
HeaderDescriptors(id) ==
    {SegyValue(heap, id).binary_file_header,
     SegyValue(heap, id).trace.header_descriptor}

\* the last call was customize with a field list that breaks a schema invariant
\* of the header it is meant for
CustomizedUnsound ==
    /\ call.op = "customize"
    /\ LET R == SegyValue(heap, call.receiver)
       IN  \/ ~SchemaInvariants(WithFields(R.binary_file_header,
                                           call.args.binary_header_fields))
           \/ ~SchemaInvariants(WithFields(R.trace.header_descriptor,
                                           call.args.trace_header_fields))

\* C21: every structured header descriptor reached from the registry by get and
\* customize calls has unique field names, no two fields overlapping and every
\* field ending at or before item_size; a customize call whose binary-header or
\* trace-header field list would break this fails with SchemaOverlap or
\* SchemaOversize and returns no descriptor.
C21_SchemaInvariantsPreserved ==
    /\ \A k \in DOMAIN handles :
          \A d \in HeaderDescriptors(handles[k]) : SchemaInvariants(d)
    /\ CustomizedUnsound =>
          /\ outcome.status = "raised"
          /\ outcome.error \in {"SchemaOverlap", "SchemaOversize"}

(***************************************************************************)
(* Properties of the selection an indexer call validates.                  *)
(***************************************************************************)
\* every requested byte range lies among the traces of the file
RangesInsideTraces ==
    \A k \in DOMAIN requests :
        /\ spec.offset <= requests[k][1]
        /\ requests[k][1] < requests[k][2]
        /\ requests[k][2] <= spec.offset + max_value * TraceItemsize(spec)

\* the call raised one of the errors of validation: OutOfBounds, BadSlice or the
\* type error for a selector that is no integer, list or slice
ValidationFailed ==
    \/ outcome.status = "IndexError" /\ outcome.error = "bounds"
    \/ outcome.status = "ValueError" /\ outcome.error = "step0"
    \/ outcome.status = "TypeError" /\ outcome.error = "type"

\* what the step check and the bounds check establish of the call's selector
Validated ==
    CASE call.item.type = "int" -> InRange(<<call.item.i>>)
      [] call.item.type = "list" -> InRange(call.item.l)
      [] call.item.type = "slice" ->
            /\ call.item.step # Some(0)
            /\ InRange(<<OrDefault(call.item.start, 0),
                         OrDefault(call.item.stop, max_value) - 1>>)
      [] OTHER -> FALSE

\* the state after an indexer call, as the claim has it
FetchedOnlyValidated ==
    /\ RangesInsideTraces
    /\ ValidationFailed => fetches = 0 /\ requests = <<>> /\ buffer = <<>>
    /\ fetches > 0 => Validated
    /\ ~Validated => ValidationFailed
    /\ (call.item.type = "slice" /\ call.item.step = Some(0)) =>
          outcome.error = "step0"
    /\ (call.item.type = "slice" /\ fetches > 0) => InRange(Selected)

\* C22: in any sequence of indexer calls every byte range handed to the range
\* fetch lies inside [offset, offset + trace_count * stride); validation, the
\* step check and then the bounds check, precedes the fetch, so a call that
\* raises OutOfBounds, BadSlice or the type error fetches nothing; every index
\* of an accepted slice lies in [0, trace_count); and no call, failing or not,
\* changes the indexer's descriptor or trace count.
C22_ValidationPrecedesFetch ==
    [][/\ UNCHANGED indexerVars
       /\ call'.op = "getitem" => FetchedOnlyValidated']_vars

\* the slice [::-2] of a file of six traces was accepted: traces 5, 3 and 1 were
\* requested as three ranges, one of them ending where the traces of the file end
C22_Witness ==
    /\ call.op = "getitem" /\ call.kind = "trace"
    /\ call.item = SliceItem(None, None, Some(0 - 2))
    /\ max_value = 6
    /\ fetches = 1 /\ outcome.status = "ok"
    /\ Selected = <<5, 3, 1>>
    /\ Len(requests) = 3
    /\ \E k \in DOMAIN requests :
          requests[k][2] = spec.offset + max_value * TraceItemsize(spec)
    /\ RangesInsideTraces

====
